---- MODULE Spec2Model ----
(***************************************************************************)
(* The JSON-backed to-do CLI (src/cli-todo-app/todo_cli.py): the in-memory *)
(* task list, the persisted file todos.json, and the operations load_tasks,*)
(* save_tasks, sort_tasks_by_priority, view_tasks, add_task,               *)
(* mark_task_done and delete_task.                                         *)
(*                                                                         *)
(* A description is a sequence of characters, so that str.strip() is       *)
(* computed; a priority is a string and str.upper() is its table.  A task  *)
(* is a record (a Python dict) with the keys description, done, priority;  *)
(* a task read from a file may lack the priority key.                      *)
(*                                                                         *)
(* pc is the place main() is at.  docs is the Firestore collection of the  *)
(* two web variants (src/web-todo-app), which the CLI never touches.       *)
(***************************************************************************)
EXTENDS Integers, Sequences, FiniteSets, TLC

VARIABLES tasks, file, msg, view, last, pc, docs

vars == <<tasks, file, msg, view, last, pc, docs>>

----------------------------------------------------------------------------
(* Bounds and input sets *)

MaxTasks == 3

\* Descriptions handed to add_task: empty, blank, plain, padded, and one with
\* inner and trailing whitespace.
DescInputs ==
    { <<>>, <<" ", " ">>, <<"a">>, <<" ", "a", " ">>, <<"b", " ", "c", " ">> }

\* Priorities handed to add_task.
PriorityInputs == {"HIGH", "low"}

\* Task numbers handed to mark_task_done and delete_task.
IndexInputs == (0 - 1) .. (MaxTasks + 1)

----------------------------------------------------------------------------
(* Strings *)

IsSpace(c) == c = " "

RECURSIVE lstrip(_)
lstrip(s) ==
    IF s = <<>> THEN <<>>
    ELSE IF IsSpace(Head(s)) THEN lstrip(Tail(s)) ELSE s

RECURSIVE rstrip(_)
rstrip(s) ==
    IF s = <<>> THEN <<>>
    ELSE IF IsSpace(s[Len(s)]) THEN rstrip(SubSeq(s, 1, Len(s) - 1)) ELSE s

\* a strip() that was left out
strip_missing(s) == s

\* str.strip()
strip(s) == rstrip(lstrip(s))

\* an upper() that was left out
upper_missing(p) == p

\* str.upper() on the priority strings of the model
upper(p) ==
    CASE p = "high"   -> "HIGH"
      [] p = "medium" -> "MEDIUM"
      [] p = "low"    -> "LOW"
      [] p = "none"   -> "NONE"
      [] p = "urgent" -> "URGENT"
      [] p = "h"      -> "H"
      [] p = "m"      -> "M"
      [] p = "l"      -> "L"
      [] p = "x"      -> "X"
      [] OTHER        -> p

----------------------------------------------------------------------------
(* The priority sort *)

\* task.get('priority', 'NONE')
get_priority(task) ==
    IF "priority" \in DOMAIN task THEN task.priority ELSE "NONE"

\* a priority_order without its 'NONE' entry
priority_order_no_none(p) ==
    CASE p = "HIGH"   -> 1
      [] p = "MEDIUM" -> 2
      [] p = "LOW"    -> 3
      [] OTHER        -> 5

\* priority_order.get(..., 5)
priority_order(p) ==
    CASE p = "HIGH"   -> 1
      [] p = "MEDIUM" -> 2
      [] p = "LOW"    -> 3
      [] p = "NONE"   -> 4
      [] OTHER        -> 5

\* the key of the lambda handed to list.sort
sort_key(task) == priority_order(upper(get_priority(task)))

\* x placed behind every element of the sorted list s whose key is not larger
RECURSIVE insert_sorted(_, _)
insert_sorted(s, x) ==
    IF s = <<>> THEN <<x>>
    ELSE IF sort_key(s[Len(s)]) <= sort_key(x) THEN Append(s, x)
    ELSE Append(insert_sorted(SubSeq(s, 1, Len(s) - 1), x), s[Len(s)])

\* a sort that was left out
list_sort_missing(l) == l

\* list.sort(key=...): a stable sort
RECURSIVE list_sort(_)
list_sort(l) ==
    IF l = <<>> THEN <<>>
    ELSE insert_sorted(list_sort(SubSeq(l, 1, Len(l) - 1)), l[Len(l)])

\* the list itself where a copy was meant
list_alias(heap, ref) == [heap |-> heap, ref |-> ref]

\* list.copy(): a new list object holding the same elements
list_copy(heap, ref) ==
    [heap |-> ("copy" :> heap[ref]) @@ heap, ref |-> "copy"]

\* sort_tasks_by_priority sorts the list object it is handed, in place, and
\* returns that same object
sort_tasks_by_priority(c) ==
    [heap |-> [c.heap EXCEPT ![c.ref] = list_sort(@)], ref |-> c.ref]

\* a lookup by description alone
list_index_by_description(l, x) ==
    CHOOSE i \in 1..Len(l) :
        /\ l[i].description = x.description
        /\ \A j \in 1..(i - 1) : l[j].description # x.description

\* list.index(x): the first position holding a value equal to x
list_index(l, x) == CHOOSE i \in 1..Len(l) : l[i] = x /\ \A j \in 1..(i - 1) : l[j] # x

----------------------------------------------------------------------------
(* JSON text, as a sequence of tokens *)

LBracket == [tok |-> "[", members |-> <<>>]
RBracket == [tok |-> "]", members |-> <<>>]

\* one key of a dict with its value as JSON text
json_member(task, key) ==
    [key  |-> key,
     text |-> IF key = "done"
              THEN (IF task[key] THEN "true" ELSE "false")
              ELSE task[key]]

\* a dict as a JSON object: its keys in insertion order
json_object(task) ==
    [tok     |-> "{}",
     members |-> IF "priority" \in DOMAIN task
                 THEN << json_member(task, "description"),
                         json_member(task, "done"),
                         json_member(task, "priority") >>
                 ELSE << json_member(task, "description"),
                         json_member(task, "done") >>]

\* json.dump(tasks, f, indent=4): one array holding one object per task
json_dump(l) ==
    <<LBracket>> \o [i \in 1..Len(l) |-> json_object(l[i])] \o <<RBracket>>

\* a JSON object back as a dict
json_dict(token) ==
    IF Len(token.members) = 3
    THEN [description |-> token.members[1].text,
          done        |-> (token.members[2].text = "true"),
          priority    |-> token.members[3].text]
    ELSE [description |-> token.members[1].text,
          done        |-> (token.members[2].text = "true")]

\* a json.load that reads the first array and ignores what follows it
json_load_first_array(content) ==
    LET closing == { i \in 1..Len(content) : content[i].tok = "]" }
        first   == CHOOSE i \in closing : \A j \in closing : i <= j
    IN  IF content = <<>> \/ content[1].tok # "[" \/ closing = {}
        THEN [ok |-> FALSE, value |-> <<>>]
        ELSE [ok |-> TRUE,
              value |-> [i \in 1..(first - 2) |-> json_dict(content[i + 1])]]

\* json.load(f): the text must be exactly one array of objects; an empty text
\* and text behind the closing bracket ("Extra data") raise JSONDecodeError
json_load(content) ==
    LET closing == { i \in 1..Len(content) : content[i].tok = "]" }
        first   == CHOOSE i \in closing : \A j \in closing : i <= j
    IN  IF content = <<>> \/ content[1].tok # "[" \/ closing = {}
        THEN [ok |-> FALSE, value |-> <<>>]
        ELSE IF first < Len(content)
             \/ \E i \in 2..(first - 1) : content[i].tok # "{}"
        THEN [ok |-> FALSE, value |-> <<>>]
        ELSE [ok |-> TRUE,
              value |-> [i \in 1..(first - 2) |-> json_dict(content[i + 1])]]

----------------------------------------------------------------------------
(* The persisted file todos.json *)

NoFile == [exists |-> FALSE, content |-> <<>>]

\* open(TASK_FILE, 'w'): the file exists and is empty
open_w(f) == [exists |-> TRUE, content |-> <<>>]

\* the body of "for task in tasks: json.dump(tasks, f, indent=4)": n writes of
\* the whole list behind what the file holds
RECURSIVE dump_loop(_, _, _)
dump_loop(f, l, n) ==
    IF n = 0 THEN f
    ELSE dump_loop([f EXCEPT !.content = @ \o json_dump(l)], l, n - 1)

save_tasks(l, f) == dump_loop(open_w(f), l, Len(l))

load_tasks(f) ==
    IF ~f.exists THEN [tasks |-> <<>>, msg |-> "none"]
    ELSE LET parsed == json_load(f.content)
         IN  IF parsed.ok
             THEN [tasks |-> parsed.value, msg |-> "none"]
             ELSE [tasks |-> <<>>, msg |-> "warning_corrupt"]

----------------------------------------------------------------------------
(* The operations.  Each yields the list, the file and what was printed    *)
(* when the call returns.                                                  *)

\* the list objects of a call: the caller's list is "tasks"
Heap(l) == "tasks" :> l

\* sort_tasks_by_priority(tasks.copy())
sorted_copy(l) == sort_tasks_by_priority(list_copy(Heap(l), "tasks"))

view_tasks(l) ==
    IF l = <<>>
    THEN [tasks |-> l, msg |-> "list_empty", view |-> <<>>]
    ELSE LET c == sorted_copy(l)
         IN  [tasks |-> c.heap["tasks"], msg |-> "list_shown",
              view  |-> c.heap[c.ref]]

\* the new task put in front of the list
add_task_prepend(l, f, new_task_desc, priority) ==
    IF strip(new_task_desc) # <<>>
    THEN LET new_task == [description |-> strip(new_task_desc),
                          done        |-> FALSE,
                          priority    |-> upper(priority)]
             inserted == <<new_task>> \o l
         IN  [tasks |-> inserted, file |-> save_tasks(inserted, f),
              msg |-> "added"]
    ELSE [tasks |-> l, file |-> f, msg |-> "empty_description"]

\* the description stored as it was typed
add_task_raw_description(l, f, new_task_desc, priority) ==
    IF strip(new_task_desc) # <<>>
    THEN LET new_task == [description |-> new_task_desc,
                          done        |-> FALSE,
                          priority    |-> upper(priority)]
             appended == Append(l, new_task)
         IN  [tasks |-> appended, file |-> save_tasks(appended, f),
              msg |-> "added"]
    ELSE [tasks |-> l, file |-> f, msg |-> "empty_description"]

add_task(l, f, new_task_desc, priority) ==
    IF strip(new_task_desc) # <<>>
    THEN LET new_task == [description |-> strip(new_task_desc),
                          done        |-> FALSE,
                          priority    |-> upper(priority)]
             appended == Append(l, new_task)
         IN  [tasks |-> appended, file |-> save_tasks(appended, f),
              msg |-> "added"]
    ELSE [tasks |-> l, file |-> f, msg |-> "empty_description"]

\* done flipped instead of set, with no look at what it was
mark_task_done_toggle(l, f, task_index) ==
    LET c            == sorted_copy(l)
        sorted_tasks == c.heap[c.ref]
        storage      == c.heap["tasks"]
        index        == task_index - 1
    IN  IF 0 <= index /\ index < Len(sorted_tasks)
        THEN LET task_to_mark   == sorted_tasks[index + 1]
                 original_index == list_index(storage, task_to_mark)
                 marked         == [storage EXCEPT ![original_index].done = ~@]
             IN  [tasks |-> marked, file |-> save_tasks(marked, f),
                  msg |-> "marked"]
        ELSE [tasks |-> storage, file |-> f, msg |-> "invalid_index"]

\* a range check without its lower bound: index -1 is the last task
mark_task_done_no_lower_bound(l, f, task_index) ==
    LET c            == sorted_copy(l)
        sorted_tasks == c.heap[c.ref]
        storage      == c.heap["tasks"]
        index        == task_index - 1
    IN  IF index < Len(sorted_tasks) /\ sorted_tasks # <<>>
        THEN LET task_to_mark   == sorted_tasks[(index % Len(sorted_tasks)) + 1]
                 original_index == list_index(storage, task_to_mark)
                 marked         == [storage EXCEPT ![original_index].done = TRUE]
             IN  IF storage[original_index].done
                 THEN [tasks |-> storage, file |-> f, msg |-> "already_done"]
                 ELSE [tasks |-> marked, file |-> save_tasks(marked, f),
                       msg |-> "marked"]
        ELSE [tasks |-> storage, file |-> f, msg |-> "invalid_index"]

mark_task_done(l, f, task_index) ==
    LET c            == sorted_copy(l)
        sorted_tasks == c.heap[c.ref]
        storage      == c.heap["tasks"]
        index        == task_index - 1
    IN  IF 0 <= index /\ index < Len(sorted_tasks)
        THEN LET task_to_mark   == sorted_tasks[index + 1]
                 original_index == list_index(storage, task_to_mark)
                 marked         == [storage EXCEPT ![original_index].done = TRUE]
             IN  IF storage[original_index].done
                 THEN [tasks |-> storage, file |-> f, msg |-> "already_done"]
                 ELSE [tasks |-> marked, file |-> save_tasks(marked, f),
                       msg |-> "marked"]
        ELSE [tasks |-> storage, file |-> f, msg |-> "invalid_index"]

\* list.pop(i)
list_pop(l, i) == SubSeq(l, 1, i - 1) \o SubSeq(l, i + 1, Len(l))

\* the display index used as the storage index
delete_task_by_display_index(l, f, task_index) ==
    LET index == task_index - 1
    IN  IF 0 <= index /\ index < Len(l)
        THEN LET popped == list_pop(l, index + 1)
             IN  [tasks |-> popped, file |-> save_tasks(popped, f),
                  msg |-> "deleted"]
        ELSE [tasks |-> l, file |-> f, msg |-> "invalid_index"]

delete_task(l, f, task_index) ==
    LET c            == sorted_copy(l)
        sorted_tasks == c.heap[c.ref]
        storage      == c.heap["tasks"]
        index        == task_index - 1
    IN  IF 0 <= index /\ index < Len(sorted_tasks)
        THEN LET task_to_delete == sorted_tasks[index + 1]
                 original_index == list_index(storage, task_to_delete)
                 popped         == list_pop(storage, original_index)
             IN  [tasks |-> popped, file |-> save_tasks(popped, f),
                  msg |-> "deleted"]
        ELSE [tasks |-> storage, file |-> f, msg |-> "invalid_index"]

----------------------------------------------------------------------------
(* The state machine.  tasks is the list main() holds, file is todos.json, *)
(* msg and view are what the last call printed, last is the last call.     *)

Call(op, index, description, priority) ==
    [op |-> op, index |-> index, description |-> description,
     priority |-> priority]

\* main() before its first menu: no file yet, load_tasks() gives the empty list
Init ==
    /\ file = NoFile
    /\ tasks = load_tasks(NoFile).tasks
    /\ msg = load_tasks(NoFile).msg
    /\ view = <<>>
    /\ last = Call("start", 0, <<>>, "")
    /\ pc = "menu"
    /\ docs = <<>>

ViewTasks ==
    LET r == view_tasks(tasks)
    IN  /\ tasks' = r.tasks
        /\ msg' = r.msg
        /\ view' = r.view
        /\ last' = Call("view", 0, <<>>, "")
        /\ UNCHANGED <<file, pc, docs>>

AddTask ==
    \E d \in DescInputs, p \in PriorityInputs :
        LET r == add_task(tasks, file, d, p)
        IN  /\ Len(tasks) < MaxTasks
            /\ tasks' = r.tasks
            /\ file' = r.file
            /\ msg' = r.msg
            /\ view' = <<>>
            /\ last' = Call("add", 0, d, p)
            /\ UNCHANGED <<pc, docs>>

MarkTaskDone ==
    \E i \in IndexInputs :
        LET r == mark_task_done(tasks, file, i)
        IN  /\ tasks' = r.tasks
            /\ file' = r.file
            /\ msg' = r.msg
            /\ view' = <<>>
            /\ last' = Call("mark", i, <<>>, "")
            /\ UNCHANGED <<pc, docs>>

DeleteTask ==
    \E i \in IndexInputs :
        LET r == delete_task(tasks, file, i)
        IN  /\ tasks' = r.tasks
            /\ file' = r.file
            /\ msg' = r.msg
            /\ view' = <<>>
            /\ last' = Call("delete", i, <<>>, "")
            /\ UNCHANGED <<pc, docs>>

\* the program is left and started again: main() reads the file
Restart ==
    LET r == load_tasks(file)
    IN  /\ tasks' = r.tasks
        /\ msg' = r.msg
        /\ view' = <<>>
        /\ last' = Call("start", 0, <<>>, "")
        /\ UNCHANGED <<file, pc, docs>>

Next == ViewTasks \/ AddTask \/ MarkTaskDone \/ DeleteTask \/ Restart

Spec == Init /\ [][Next]_vars

----------------------------------------------------------------------------
(* A second start: todos.json already holds one array of tasks, written by *)
(* hand or by another program, and main() loads it; then the list is       *)
(* viewed.  The tasks of such a file may lack the priority key or carry a  *)
(* priority the program does not know.                                     *)

FilePriorities == {"HIGH", "MEDIUM", "LOW", "NONE", "high", "URGENT"}

FileTasks ==
    [description : {<<"a">>}, done : BOOLEAN, priority : FilePriorities]
        \cup [description : {<<"a">>}, done : BOOLEAN]

FileLists == UNION { [1..n -> FileTasks] : n \in 0..MaxTasks }

InitLoaded ==
    /\ \E l \in FileLists : file = [exists |-> TRUE, content |-> json_dump(l)]
    /\ tasks = load_tasks(file).tasks
    /\ msg = load_tasks(file).msg
    /\ view = <<>>
    /\ last = Call("start", 0, <<>>, "")
    /\ pc = "menu"
    /\ docs = <<>>

NextLoaded == ViewTasks

SpecLoaded == InitLoaded /\ [][NextLoaded]_vars

----------------------------------------------------------------------------
(* main(): the menu loop.  pc is "menu" where the menu is printed and a    *)
(* choice is read, "priority" where the priority of a new task is read,    *)
(* "done" after the loop.  last.op is the choice typed, last.description   *)
(* the text typed behind it.                                               *)

ChoiceInputs == {"1", "2", "3", "4", "5", "6", ""}

\* Descriptions typed at "Enter the new task description"
MainDescInputs == { <<" ">>, <<"a">> }

\* Priorities typed at "Enter priority (H/M/L/None)"
MainPriorityInputs == {"h", "low", "", "x"}

Digits == {"0", "1", "2", "3", "4", "5", "6", "7", "8", "9"}

DigitValue(c) ==
    CASE c = "0" -> 0 [] c = "1" -> 1 [] c = "2" -> 2 [] c = "3" -> 3
      [] c = "4" -> 4 [] c = "5" -> 5 [] c = "6" -> 6 [] c = "7" -> 7
      [] c = "8" -> 8 [] c = "9" -> 9

RECURSIVE digits_value(_)
digits_value(s) ==
    IF s = <<>> THEN 0
    ELSE 10 * digits_value(SubSeq(s, 1, Len(s) - 1)) + DigitValue(s[Len(s)])

\* int(text): blanks around, a sign, then digits; anything else is ValueError
int_parse(text) ==
    LET t      == strip(text)
        signed == t # <<>> /\ t[1] \in {"-", "+"}
        body   == IF signed THEN Tail(t) ELSE t
    IN  IF body # <<>> /\ \A k \in 1..Len(body) : body[k] \in Digits
        THEN [ok |-> TRUE,
              value |-> IF signed /\ t[1] = "-"
                        THEN 0 - digits_value(body) ELSE digits_value(body)]
        ELSE [ok |-> FALSE, value |-> 0]

\* Task numbers typed at "Enter the number of the task"
NumberInputs ==
    { <<"0">>, <<"1">>, <<" ", "2">>, <<"3">>, <<"4">>, <<"5">>, <<"-", "1">>,
      <<"a">>, <<>> }

\* the priority typed, in upper case, is one the inner loop accepts
priority_accepted(p) ==
    p \in {"H", "HIGH", "M", "MEDIUM", "L", "LOW", "NONE", ""}

\* the accepted priority as add_task is handed it
priority_standardized(p) ==
    CASE p = "H" -> "HIGH"
      [] p = "M" -> "MEDIUM"
      [] p = "L" -> "LOW"
      [] p = ""  -> "NONE"
      [] OTHER   -> p

\* an else branch that leaves the loop
main_after_breaks_on_unknown(choice) ==
    IF choice = "2" THEN "priority"
    ELSE IF choice \in {"1", "3", "4"} THEN "menu"
    ELSE "done"

\* where main() is once the branch of a choice has run: only '5' breaks
main_after(choice) ==
    IF choice = "5" THEN "done"
    ELSE IF choice = "2" THEN "priority"
    ELSE "menu"

\* choice '1'
MainView ==
    LET r == view_tasks(tasks)
    IN  /\ pc = "menu"
        /\ tasks' = r.tasks
        /\ msg' = r.msg
        /\ view' = r.view
        /\ last' = Call("1", 0, <<>>, "")
        /\ pc' = main_after("1")
        /\ UNCHANGED <<file, docs>>

\* choice '2': the description is read, the priority is asked for
MainAddDescription ==
    \E d \in MainDescInputs :
        /\ pc = "menu"
        /\ Len(tasks) < MaxTasks
        /\ msg' = "ask_priority"
        /\ view' = <<>>
        /\ last' = Call("2", 0, d, "")
        /\ pc' = main_after("2")
        /\ UNCHANGED <<tasks, file, docs>>

\* the inner loop of choice '2': one priority is read
MainPriority ==
    \E p \in MainPriorityInputs :
        LET priority == upper(p)
            r == add_task(tasks, file, last.description,
                          priority_standardized(priority))
        IN  /\ pc = "priority"
            /\ view' = <<>>
            /\ last' = [last EXCEPT !.priority = p]
            /\ UNCHANGED docs
            /\ IF priority_accepted(priority)
               THEN /\ tasks' = r.tasks
                    /\ file' = r.file
                    /\ msg' = r.msg
                    /\ pc' = "menu"
               ELSE /\ msg' = "invalid_priority"
                    /\ pc' = "priority"
                    /\ UNCHANGED <<tasks, file>>

\* choice '3'
MainMark ==
    \E text \in NumberInputs :
        LET shown    == view_tasks(tasks)
            task_num == int_parse(text)
            r        == mark_task_done(shown.tasks, file, task_num.value)
        IN  /\ pc = "menu"
            /\ view' = shown.view
            /\ pc' = main_after("3")
            /\ UNCHANGED docs
            /\ IF shown.tasks = <<>>
               THEN /\ tasks' = shown.tasks
                    /\ msg' = shown.msg
                    /\ last' = Call("3", 0, <<>>, "")
                    /\ UNCHANGED file
               ELSE /\ last' = Call("3", task_num.value, text, "")
                    /\ IF task_num.ok
                       THEN /\ tasks' = r.tasks
                            /\ file' = r.file
                            /\ msg' = r.msg
                       ELSE /\ tasks' = shown.tasks
                            /\ msg' = "invalid_number"
                            /\ UNCHANGED file

\* choice '4'
MainDelete ==
    \E text \in NumberInputs :
        LET shown    == view_tasks(tasks)
            task_num == int_parse(text)
            r        == delete_task(shown.tasks, file, task_num.value)
        IN  /\ pc = "menu"
            /\ view' = shown.view
            /\ pc' = main_after("4")
            /\ UNCHANGED docs
            /\ IF shown.tasks = <<>>
               THEN /\ tasks' = shown.tasks
                    /\ msg' = shown.msg
                    /\ last' = Call("4", 0, <<>>, "")
                    /\ UNCHANGED file
               ELSE /\ last' = Call("4", task_num.value, text, "")
                    /\ IF task_num.ok
                       THEN /\ tasks' = r.tasks
                            /\ file' = r.file
                            /\ msg' = r.msg
                       ELSE /\ tasks' = shown.tasks
                            /\ msg' = "invalid_number"
                            /\ UNCHANGED file

\* choice '5'
MainQuit ==
    /\ pc = "menu"
    /\ msg' = "goodbye"
    /\ view' = <<>>
    /\ last' = Call("5", 0, <<>>, "")
    /\ pc' = main_after("5")
    /\ UNCHANGED <<tasks, file, docs>>

\* any other choice
MainInvalidChoice ==
    \E choice \in ChoiceInputs \ {"1", "2", "3", "4", "5"} :
        /\ pc = "menu"
        /\ msg' = "invalid_choice"
        /\ view' = <<>>
        /\ last' = Call(choice, 0, <<>>, "")
        /\ pc' = main_after(choice)
        /\ UNCHANGED <<tasks, file, docs>>

NextMain ==
    \/ MainView \/ MainAddDescription \/ MainPriority \/ MainMark
    \/ MainDelete \/ MainQuit \/ MainInvalidChoice

SpecMain == Init /\ [][NextMain]_vars

----------------------------------------------------------------------------
(* A third run of the same operations, on the two tasks of the to-do list  *)
(* of the specification's scenario.                                        *)

BuyMilk == <<"B", "u", "y", " ", "m", "i", "l", "k">>
PayRent == <<"P", "a", "y", " ", "r", "e", "n", "t">>

ScenarioDescInputs == {BuyMilk, PayRent}

ScenarioPriorityInputs == {"LOW", "HIGH"}

AddScenarioTask ==
    \E d \in ScenarioDescInputs, p \in ScenarioPriorityInputs :
        LET r == add_task(tasks, file, d, p)
        IN  /\ Len(tasks) < MaxTasks
            /\ tasks' = r.tasks
            /\ file' = r.file
            /\ msg' = r.msg
            /\ view' = <<>>
            /\ last' = Call("add", 0, d, p)
            /\ UNCHANGED <<pc, docs>>

NextScenario == ViewTasks \/ AddScenarioTask \/ MarkTaskDone \/ DeleteTask

SpecScenario == Init /\ [][NextScenario]_vars

----------------------------------------------------------------------------
(* A fourth run: the file system may refuse the write of save_tasks.       *)
(* open(TASK_FILE, 'w') may raise (the file is left as it was), or open    *)
(* may truncate the file and the first json.dump raise.  add_task has no   *)
(* try around save_tasks and main() none around add_task, so the exception *)
(* ends main(); mark_task_done and delete_task catch it with "except       *)
(* Exception" and print it.  pc is "done" once main() has ended.           *)

\* the longest list of this run
MaxSaveTasks == 2

WriteOutcomes == {"written", "open_raises", "write_raises"}

\* save_tasks under one outcome of the file system: the file afterwards and
\* whether the call raised (an empty list makes no write)
save_tasks_io(l, f, io) ==
    CASE io = "open_raises" -> [file |-> f, raised |-> TRUE]
      [] io = "write_raises" /\ l # <<>> -> [file |-> open_w(f), raised |-> TRUE]
      [] OTHER -> [file |-> save_tasks(l, f), raised |-> FALSE]

\* add_task: the list is appended to before save_tasks is called, and an
\* exception of save_tasks leaves add_task
add_task_io(l, f, new_task_desc, priority, io) ==
    LET r == add_task(l, f, new_task_desc, priority)
        s == save_tasks_io(r.tasks, f, io)
    IN  IF r.msg = "added" /\ s.raised
        THEN [tasks |-> r.tasks, file |-> s.file, msg |-> "traceback",
              raised |-> TRUE]
        ELSE IF r.msg = "added"
        THEN [tasks |-> r.tasks, file |-> s.file, msg |-> r.msg,
              raised |-> FALSE]
        ELSE [tasks |-> r.tasks, file |-> r.file, msg |-> r.msg,
              raised |-> FALSE]

\* mark_task_done: done is set before save_tasks is called, and an exception
\* of save_tasks is caught and printed
mark_task_done_io(l, f, task_index, io) ==
    LET r == mark_task_done(l, f, task_index)
        s == save_tasks_io(r.tasks, f, io)
    IN  IF r.msg = "marked" /\ s.raised
        THEN [tasks |-> r.tasks, file |-> s.file, msg |-> "error_occurred"]
        ELSE IF r.msg = "marked"
        THEN [tasks |-> r.tasks, file |-> s.file, msg |-> r.msg]
        ELSE r

\* delete_task: the task is popped before save_tasks is called, and an
\* exception of save_tasks is caught and printed
delete_task_io(l, f, task_index, io) ==
    LET r == delete_task(l, f, task_index)
        s == save_tasks_io(r.tasks, f, io)
    IN  IF r.msg = "deleted" /\ s.raised
        THEN [tasks |-> r.tasks, file |-> s.file, msg |-> "error_occurred"]
        ELSE IF r.msg = "deleted"
        THEN [tasks |-> r.tasks, file |-> s.file, msg |-> r.msg]
        ELSE r

AddTaskIO ==
    \E d \in DescInputs, p \in PriorityInputs, io \in WriteOutcomes :
        LET r == add_task_io(tasks, file, d, p, io)
        IN  /\ pc = "menu"
            /\ Len(tasks) < MaxSaveTasks
            /\ tasks' = r.tasks
            /\ file' = r.file
            /\ msg' = r.msg
            /\ view' = <<>>
            /\ last' = Call("add", 0, d, p)
            /\ pc' = IF r.raised THEN "done" ELSE "menu"
            /\ UNCHANGED docs

MarkTaskDoneIO ==
    \E i \in IndexInputs, io \in WriteOutcomes :
        LET r == mark_task_done_io(tasks, file, i, io)
        IN  /\ pc = "menu"
            /\ tasks' = r.tasks
            /\ file' = r.file
            /\ msg' = r.msg
            /\ view' = <<>>
            /\ last' = Call("mark", i, <<>>, "")
            /\ UNCHANGED <<pc, docs>>

DeleteTaskIO ==
    \E i \in IndexInputs, io \in WriteOutcomes :
        LET r == delete_task_io(tasks, file, i, io)
        IN  /\ pc = "menu"
            /\ tasks' = r.tasks
            /\ file' = r.file
            /\ msg' = r.msg
            /\ view' = <<>>
            /\ last' = Call("delete", i, <<>>, "")
            /\ UNCHANGED <<pc, docs>>

\* the program, left or ended, is started again: main() reads the file
StartAgain ==
    LET r == load_tasks(file)
    IN  /\ tasks' = r.tasks
        /\ msg' = r.msg
        /\ view' = <<>>
        /\ last' = Call("start", 0, <<>>, "")
        /\ pc' = "menu"
        /\ UNCHANGED <<file, docs>>

NextSaveFails == AddTaskIO \/ MarkTaskDoneIO \/ DeleteTaskIO \/ StartAgain

SpecSaveFails == Init /\ [][NextSaveFails]_vars

----------------------------------------------------------------------------
(* The web variants (src/web-todo-app).  docs is the Firestore collection: *)
(* a function from document ids to documents.  A document is a dict with   *)
(* the keys user_id, description, done and priority; a document that some  *)
(* other program wrote may lack keys.  Firestore picks the id of a new     *)
(* document and streams a collection in the order of the ids.  A request   *)
(* is handled as a whole before the next one (spec.md, section 5); the     *)
(* routes are modelled with Firestore connected (FIREBASE_READY).          *)

MaxDocs == 3

DocIds == 1..MaxDocs

Users == {"A", "B"}

\* Authorization headers sent with a request
HeaderInputs == {"", "Bearer tokA", "Bearer tokB", "Bearer bad"}

\* Descriptions and priorities sent to the add route
WebDescInputs == { <<>>, <<" ">>, <<"a">> }

WebPriorityInputs == {"low", ""}

Request(op, header, id, description, priority) ==
    [op |-> op, header |-> header, id |-> id, description |-> description,
     priority |-> priority]

\* header.split('Bearer ')[-1]
bearer_token(header) ==
    CASE header = "Bearer tokA" -> "tokA"
      [] header = "Bearer tokB" -> "tokB"
      [] header = "Bearer bad"  -> "bad"
      [] OTHER                  -> header

\* auth.verify_id_token: the uid of a valid token
verify_id_token(id_token) ==
    CASE id_token = "tokA" -> [ok |-> TRUE, uid |-> "A"]
      [] id_token = "tokB" -> [ok |-> TRUE, uid |-> "B"]
      [] OTHER             -> [ok |-> FALSE, uid |-> ""]

\* the decorator: 403 without a token, 401 with a bad one, else the route
\* runs with request.user_id set
token_required(header) ==
    LET id_token == bearer_token(header)
        decoded  == verify_id_token(id_token)
    IN  IF id_token = "" THEN [status |-> "403", user_id |-> ""]
        ELSE IF ~decoded.ok THEN [status |-> "401", user_id |-> ""]
        ELSE [status |-> "200", user_id |-> decoded.uid]

\* Python's truth of a str: it is not empty (a description is a sequence
\* of characters, a priority a string)
truthy(text) == text # <<>>

truthy_priority(p) == p # ""

\* collection.stream(): the documents in the order of their ids
RECURSIVE stream(_, _)
stream(collection, ids) ==
    IF ids = {} THEN <<>>
    ELSE LET i == CHOOSE x \in ids : \A y \in ids : x <= y
         IN  <<[id |-> i, doc |-> collection[i]]>>
                 \o stream(collection, ids \ {i})

\* doc.to_dict() with task['id'] = doc.id
with_id(entry) ==
    [k \in DOMAIN entry.doc \cup {"id"} |->
        IF k = "id" THEN entry.id ELSE entry.doc[k]]

\* the tasks list of a route: one dict per streamed document
task_dicts(entries) == [k \in 1..Len(entries) |-> with_id(entries[k])]

\* t.get('done', False) as the int Python compares it as
done_key(t) == IF "done" \in DOMAIN t /\ t.done THEN 1 ELSE 0

\* priority_order.get(t.get('priority', 'LOW').upper(), 4)
web_priority_order(t) ==
    LET p == upper(IF "priority" \in DOMAIN t THEN t.priority ELSE "LOW")
    IN  CASE p = "HIGH"   -> 1
          [] p = "MEDIUM" -> 2
          [] p = "LOW"    -> 3
          [] OTHER        -> 4

\* the key of app.py's sort
app_sort_key(t) == <<done_key(t), web_priority_order(t)>>

\* a key that leaves done out
service_sort_key_priority_only(t) == <<0, web_priority_order(t)>>

\* the key of todo_web_service.py's sort
service_sort_key(t) == <<done_key(t), web_priority_order(t)>>

\* a <= b for two keys (Python compares tuples item by item)
tuple_le(a, b) == a[1] < b[1] \/ (a[1] = b[1] /\ a[2] <= b[2])

\* list.sort(key=...) on the pairs of a key and its item: a stable sort
RECURSIVE keyed_insert(_, _)
keyed_insert(sorted, x) ==
    IF sorted = <<>> THEN <<x>>
    ELSE IF tuple_le(sorted[Len(sorted)].key, x.key) THEN Append(sorted, x)
    ELSE Append(keyed_insert(SubSeq(sorted, 1, Len(sorted) - 1), x),
                sorted[Len(sorted)])

RECURSIVE keyed_sort(_)
keyed_sort(pairs) ==
    IF pairs = <<>> THEN <<>>
    ELSE keyed_insert(keyed_sort(SubSeq(pairs, 1, Len(pairs) - 1)),
                      pairs[Len(pairs)])

items(pairs) == [k \in 1..Len(pairs) |-> pairs[k].item]

\* app.py, index(): every document, sorted
app_index(collection) ==
    LET found == task_dicts(stream(collection, DOMAIN collection))
    IN  items(keyed_sort([k \in 1..Len(found) |->
                             [key |-> app_sort_key(found[k]), item |-> found[k]]]))

\* where('user_id', '==', uid): the ids of the documents of a user
where_user(collection, uid) ==
    { i \in DOMAIN collection :
        "user_id" \in DOMAIN collection[i] /\ collection[i].user_id = uid }

\* todo_web_service.py, get_tasks(): the user's documents, sorted
get_tasks(collection, header) ==
    LET who   == token_required(header)
        found == task_dicts(stream(collection,
                                   where_user(collection, who.user_id)))
    IN  IF who.status # "200"
        THEN [status |-> who.status, tasks |-> <<>>]
        ELSE [status |-> "200",
              tasks  |-> items(keyed_sort([k \in 1..Len(found) |->
                             [key  |-> service_sort_key(found[k]),
                              item |-> found[k]]]))]

\* todo_web_service.py, add_task(): the document stored under the new id
service_add_task(collection, header, new_id, description, priority) ==
    LET who == token_required(header)
        new_task == [user_id     |-> who.user_id,
                     description |-> description,
                     done        |-> FALSE,
                     priority    |-> upper(priority)]
    IN  IF who.status # "200"
        THEN [status |-> who.status, docs |-> collection]
        ELSE IF truthy(description) /\ truthy_priority(upper(priority))
        THEN [status |-> "200", docs |-> (new_id :> new_task) @@ collection]
        ELSE [status |-> "200", docs |-> collection]

\* a route that updates whatever document it is given
service_mark_done_unchecked(collection, header, task_id) ==
    LET who == token_required(header)
    IN  IF who.status # "200"
        THEN [status |-> who.status, docs |-> collection]
        ELSE IF task_id \in DOMAIN collection
        THEN [status |-> "200",
              docs   |-> [collection EXCEPT ![task_id].done = TRUE]]
        ELSE [status |-> "200", docs |-> collection]

\* todo_web_service.py, mark_done(): task_ref.get().to_dict() is None for a
\* document that does not exist
service_mark_done(collection, header, task_id) ==
    LET who == token_required(header)
    IN  IF who.status # "200"
        THEN [status |-> who.status, docs |-> collection]
        ELSE IF /\ task_id \in DOMAIN collection
                /\ "user_id" \in DOMAIN collection[task_id]
                /\ collection[task_id].user_id = who.user_id
        THEN [status |-> "200",
              docs   |-> [collection EXCEPT ![task_id].done = TRUE]]
        ELSE [status |-> "200", docs |-> collection]

\* todo_web_service.py, delete_task()
service_delete_task(collection, header, task_id) ==
    LET who == token_required(header)
    IN  IF who.status # "200"
        THEN [status |-> who.status, docs |-> collection]
        ELSE IF /\ task_id \in DOMAIN collection
                /\ "user_id" \in DOMAIN collection[task_id]
                /\ collection[task_id].user_id = who.user_id
        THEN [status |-> "200",
              docs   |-> [i \in DOMAIN collection \ {task_id} |-> collection[i]]]
        ELSE [status |-> "200", docs |-> collection]

\* the service before its first request: an empty collection
InitService ==
    /\ docs = <<>>
    /\ msg = "none"
    /\ view = <<>>
    /\ last = Request("start", "", 0, <<>>, "")
    /\ tasks = <<>>
    /\ file = NoFile
    /\ pc = "serving"

ServiceGetTasks ==
    \E h \in HeaderInputs :
        LET r == get_tasks(docs, h)
        IN  /\ msg' = r.status
            /\ view' = r.tasks
            /\ last' = Request("get_tasks", h, 0, <<>>, "")
            /\ UNCHANGED <<docs, tasks, file, pc>>

ServiceAddTask ==
    \E h \in HeaderInputs, d \in WebDescInputs, p \in WebPriorityInputs :
        \E new_id \in DocIds \ DOMAIN docs :
            LET r == service_add_task(docs, h, new_id, d, p)
            IN  /\ docs' = r.docs
                /\ msg' = r.status
                /\ view' = <<>>
                /\ last' = Request("add", h, new_id, d, p)
                /\ UNCHANGED <<tasks, file, pc>>

ServiceMarkDone ==
    \E h \in HeaderInputs, i \in DocIds :
        LET r == service_mark_done(docs, h, i)
        IN  /\ docs' = r.docs
            /\ msg' = r.status
            /\ view' = <<>>
            /\ last' = Request("done", h, i, <<>>, "")
            /\ UNCHANGED <<tasks, file, pc>>

ServiceDeleteTask ==
    \E h \in HeaderInputs, i \in DocIds :
        LET r == service_delete_task(docs, h, i)
        IN  /\ docs' = r.docs
            /\ msg' = r.status
            /\ view' = <<>>
            /\ last' = Request("delete", h, i, <<>>, "")
            /\ UNCHANGED <<tasks, file, pc>>

NextService ==
    ServiceGetTasks \/ ServiceAddTask \/ ServiceMarkDone \/ ServiceDeleteTask

SpecService == InitService /\ [][NextService]_vars

----------------------------------------------------------------------------
(* The two listings on a collection that is already filled, by these       *)
(* routes or by another program: documents of either user or of none, with *)
(* any priority or none, with or without the done key.                     *)

ListedPriorities == {"HIGH", "MEDIUM", "LOW", "high", "X"}

ListedDocs ==
    [user_id : {"A"}, description : {<<"a">>}, done : BOOLEAN,
     priority : ListedPriorities]
        \cup [user_id : {"A"}, description : {<<"a">>}, done : BOOLEAN]
        \cup [user_id : {"A"}, description : {<<"a">>},
              priority : {"HIGH", "LOW"}]
        \cup [user_id : {"B"}, description : {<<"a">>}, done : {FALSE},
              priority : {"HIGH"}]
        \cup [description : {<<"a">>}, done : {TRUE}, priority : {"HIGH"}]

Collections == UNION { [ids -> ListedDocs] : ids \in SUBSET DocIds }

InitWebList ==
    /\ docs \in Collections
    /\ msg = "none"
    /\ view = <<>>
    /\ last = Request("start", "", 0, <<>>, "")
    /\ tasks = <<>>
    /\ file = NoFile
    /\ pc = "serving"

\* app.py, GET /
AppIndex ==
    /\ msg' = "200"
    /\ view' = app_index(docs)
    /\ last' = Request("index", "", 0, <<>>, "")
    /\ UNCHANGED <<docs, tasks, file, pc>>

NextWebList == AppIndex \/ ServiceGetTasks

SpecWebList == InitWebList /\ [][NextWebList]_vars

----------------------------------------------------------------------------
(* What the properties below speak of, stated without the operations' code *)

Range(l) == { l[k] : k \in 1..Len(l) }

Count(l, x) == Cardinality({ k \in 1..Len(l) : l[k] = x })

HasText(s) == \E k \in 1..Len(s) : s[k] # " "

\* s without its leading and trailing blanks, for an s that has text
Trimmed(s) ==
    LET text == { k \in 1..Len(s) : s[k] # " " }
        lo   == CHOOSE k \in text : \A j \in text : k <= j
        hi   == CHOOSE k \in text : \A j \in text : j <= k
    IN  SubSeq(s, lo, hi)

UpperCased(p) ==
    CASE p \in {"HIGH", "high"}     -> "HIGH"
      [] p \in {"MEDIUM", "medium"} -> "MEDIUM"
      [] p \in {"LOW", "low"}       -> "LOW"
      [] p \in {"NONE", "none"}     -> "NONE"

\* the group of a task in the displayed order, priorities read in upper case:
\* HIGH, MEDIUM, LOW, then NONE or no priority, then any other priority
Group(t) ==
    IF "priority" \notin DOMAIN t THEN 4
    ELSE CASE t.priority \in {"HIGH", "high"}     -> 1
           [] t.priority \in {"MEDIUM", "medium"} -> 2
           [] t.priority \in {"LOW", "low"}       -> 3
           [] t.priority \in {"NONE", "none"}     -> 4
           [] OTHER                               -> 5

\* the same with NONE, no priority and any other priority as one last group
GroupMerged(t) == IF Group(t) = 5 THEN 4 ELSE Group(t)

\* the tasks of l of group g, in storage order
InGroup(l, g) == LET Is(t) == Group(t) = g IN SelectSeq(l, Is)

InGroupMerged(l, g) == LET Is(t) == GroupMerged(t) = g IN SelectSeq(l, Is)

\* storage position j is displayed before storage position k
ShownBefore(l, j, k) ==
    \/ Group(l[j]) < Group(l[k])
    \/ Group(l[j]) = Group(l[k]) /\ j < k

\* the storage position of the task displayed at position i
StorageOf(l, i) ==
    CHOOSE k \in 1..Len(l) :
        Cardinality({ j \in 1..Len(l) : ShownBefore(l, j, k) }) = i - 1

\* the task displayed at position i
ShownAt(l, i) == l[StorageOf(l, i)]

Saved == msg \in {"added", "marked", "deleted"}

----------------------------------------------------------------------------
(* C1: a list written by save_tasks and read back by load_tasks is the     *)
(* list that was written, whatever its length.                             *)
C1_RoundTrip == load_tasks(save_tasks(tasks, file)).tasks = tasks

(* C2: after every save_tasks the file holds exactly one array with one    *)
(* object per task of the list (an empty array for the empty list) and     *)
(* nothing else.                                                           *)
C2_OneArrayPerSave ==
    Saved =>
        /\ file.exists
        /\ Len(file.content) = Len(tasks) + 2
        /\ file.content[1].tok = "["
        /\ file.content[Len(file.content)].tok = "]"
        /\ \A k \in 1..Len(tasks) : file.content[k + 1].tok = "{}"

(* C3: mark_task_done(i) for a valid i whose displayed task is pending     *)
(* sets done on the storage entry displayed at position i and on no other, *)
(* so that position i of the next view is done; duplicates included.       *)
C3_MarkSetsShownEntry ==
    [][ \A i \in 1..Len(tasks) :
            (last'.op = "mark" /\ last'.index = i /\ ~ShownAt(tasks, i).done)
            => /\ tasks' = [tasks EXCEPT ![StorageOf(tasks, i)].done = TRUE]
               /\ ShownAt(tasks', i).done ]_vars

(* C4 as claimed: the view lists HIGH, MEDIUM, LOW, then NONE, missing and *)
(* unrecognized priorities as one last group, each group in storage order. *)
C4_FourGroups ==
    msg = "list_shown" =>
        view = InGroupMerged(tasks, 1) \o InGroupMerged(tasks, 2)
                 \o InGroupMerged(tasks, 3) \o InGroupMerged(tasks, 4)

(* C4 as amended: the view lists HIGH, MEDIUM, LOW, then the tasks whose   *)
(* priority is NONE or missing, then the tasks of any other priority as a  *)
(* fifth group, each of the five groups in storage order.                  *)
C4_FiveGroups ==
    msg = "list_shown" =>
        view = InGroup(tasks, 1) \o InGroup(tasks, 2) \o InGroup(tasks, 3)
                 \o InGroup(tasks, 4) \o InGroup(tasks, 5)

\* a view of a list that stores an unknown priority before a NONE or missing
\* one, and two tasks of one group
C4_Witness ==
    /\ msg = "list_shown"
    /\ \E j, k \in 1..Len(tasks) :
           j < k /\ Group(tasks[j]) = 5 /\ Group(tasks[k]) = 4
    /\ \E j, k \in 1..Len(tasks) :
           j < k /\ Group(tasks[j]) = Group(tasks[k]) /\ tasks[j] # tasks[k]

(* C5: add_task with a description that has text makes the list one longer *)
(* and the next view holds a task with the trimmed description, done false *)
(* and the requested priority in upper case.                               *)
C5_AddThenView ==
    [][ (last'.op = "add" /\ HasText(last'.description))
        => /\ Len(tasks') = Len(tasks) + 1
           /\ \E k \in 1..Len(view_tasks(tasks').view) :
                  view_tasks(tasks').view[k] =
                      [description |-> Trimmed(last'.description),
                       done        |-> FALSE,
                       priority    |-> UpperCased(last'.priority)] ]_vars

\* a padded description with a lower-case priority was added to a list that
\* held tasks already
C5_Witness ==
    /\ last.op = "add" /\ msg = "added"
    /\ last.description # Trimmed(last.description)
    /\ last.priority # UpperCased(last.priority)
    /\ Len(tasks) >= 2

(* C6: add_task with an empty or blank description leaves the list and the *)
(* file as they were and reports the validation message.                   *)
C6_BlankAddRejected ==
    [][ (last'.op = "add" /\ ~HasText(last'.description))
        => /\ tasks' = tasks
           /\ file' = file
           /\ msg' = "empty_description" ]_vars

\* a blank, not empty, description was refused on a list that holds tasks
C6_Witness ==
    /\ last.op = "add" /\ msg = "empty_description"
    /\ last.description # <<>>
    /\ tasks # <<>> /\ file.exists

(* C7: mark_task_done(i) twice in a row for a valid i: the second call     *)
(* reports "already done" and leaves the list and the file as the first    *)
(* call left them.                                                         *)
C7_SecondMarkAlreadyDone ==
    [][ (/\ last.op = "mark" /\ last.index \in 1..Len(tasks)
         /\ last'.op = "mark" /\ last'.index = last.index)
        => /\ msg' = "already_done"
           /\ tasks' = tasks
           /\ file' = file ]_vars

(* C8: delete_task(i) for a valid i makes the list one shorter, and the    *)
(* tasks left are the tasks before less one occurrence of the task that    *)
(* was displayed at position i.                                            *)
C8_DeleteRemovesShown ==
    [][ \A i \in 1..Len(tasks) :
            (last'.op = "delete" /\ last'.index = i)
            => /\ Len(tasks') = Len(tasks) - 1
               /\ Range(tasks') \subseteq Range(tasks)
               /\ \A x \in Range(tasks) :
                      Count(tasks', x) =
                          Count(tasks, x)
                              - (IF x = ShownAt(tasks, i) THEN 1 ELSE 0) ]_vars

\* display position 2 of three tasks was deleted and a LOW task is left stored
\* before a HIGH one: whatever was deleted, it was not stored at position 2
C8_Witness ==
    /\ last.op = "delete" /\ last.index = 2 /\ msg = "deleted"
    /\ Len(tasks) = 2
    /\ Group(tasks[2]) < Group(tasks[1])

(* C9: mark_task_done and delete_task with an index outside 1..len report  *)
(* the invalid-index message and leave the list and the file unchanged.    *)
C9_InvalidIndexRejected ==
    [][ (last'.op \in {"mark", "delete"} /\ last'.index \notin 1..Len(tasks))
        => /\ msg' = "invalid_index"
           /\ tasks' = tasks
           /\ file' = file ]_vars

\* index 0 was refused on a list that holds tasks
C9_Witness ==
    /\ last.op \in {"mark", "delete"} /\ last.index = 0
    /\ msg = "invalid_index"
    /\ tasks # <<>>

\* l with the entry at position k left out
Without(l, k) == [j \in 1..(Len(l) - 1) |-> IF j < k THEN l[j] ELSE l[j + 1]]

(* C10: view_tasks leaves the list element for element as it was, and the  *)
(* sorted copies of mark_task_done and delete_task move no task: after     *)
(* mark every position holds the description and priority it held, after   *)
(* delete the list is the old one with one position left out.              *)
C10_StorageOrderKept ==
    [][ /\ last'.op = "view" => tasks' = tasks
        /\ last'.op = "mark" =>
               /\ Len(tasks') = Len(tasks)
               /\ \A k \in 1..Len(tasks) :
                      /\ tasks'[k].description = tasks[k].description
                      /\ tasks'[k].priority = tasks[k].priority
        /\ last'.op = "delete" =>
               \/ tasks' = tasks
               \/ \E k \in 1..Len(tasks) : tasks' = Without(tasks, k) ]_vars

\* a list that is not stored in display order was viewed
C10_Witness ==
    /\ last.op = "view" /\ msg = "list_shown"
    /\ view # tasks
    /\ Len(tasks) = MaxTasks

----------------------------------------------------------------------------
\* the text is one array of objects and nothing else
IsOneArray(content) ==
    /\ Len(content) >= 2
    /\ content[1].tok = "["
    /\ content[Len(content)].tok = "]"
    /\ \A k \in 2..(Len(content) - 1) : content[k].tok = "{}"

(* C11: load_tasks gives the empty list and no message when the file is    *)
(* absent, the empty list and the warning when the file's text is not      *)
(* parseable JSON (an empty file included), and else the stored list.      *)
C11_LoadFailsSoft ==
    [][ last'.op = "start" =>
          /\ ~file.exists => (tasks' = <<>> /\ msg' = "none")
          /\ (file.exists /\ ~IsOneArray(file.content))
                 => (tasks' = <<>> /\ msg' = "warning_corrupt")
          /\ (file.exists /\ IsOneArray(file.content))
                 => (json_dump(tasks') = file.content /\ msg' = "none") ]_vars

\* the program was started on a file that holds text, but not one array
C11_Witness ==
    /\ last.op = "start" /\ msg = "warning_corrupt"
    /\ file.exists /\ file.content # <<>>
    /\ tasks = <<>>

\* the positions at which two lists of one length differ
Changed(l, m) == { k \in 1..Len(l) : l[k] # m[k] }

(* C13: no operation changes the description or priority of an existing    *)
(* task or takes done from true to false: mark_task_done changes at most   *)
(* the done field of one entry, from false to true; add_task and           *)
(* delete_task change no field of an entry that stays.                     *)
C13_FieldsNeverRewritten ==
    [][ /\ last'.op = "mark" =>
               /\ Len(tasks') = Len(tasks)
               /\ Cardinality(Changed(tasks, tasks')) <= 1
               /\ \A k \in Changed(tasks, tasks') :
                      /\ ~tasks[k].done
                      /\ tasks' = [tasks EXCEPT ![k].done = TRUE]
        /\ last'.op = "add" =>
               \A k \in 1..Len(tasks) : tasks'[k] = tasks[k]
        /\ last'.op = "delete" =>
               Range(tasks') \subseteq Range(tasks) ]_vars

\* a task was marked in a list that holds a done task and a pending one too
C13_Witness ==
    /\ last.op = "mark" /\ msg = "marked"
    /\ Len(tasks) = 3
    /\ \E j, k \in 1..Len(tasks) :
           j # k /\ j # StorageOf(tasks, last.index)
                 /\ k # StorageOf(tasks, last.index)
                 /\ tasks[j].done /\ ~tasks[k].done

(* C14: in every state reached from the empty list, every task's           *)
(* description is non-empty, not blank, and has no blank at either end.    *)
C14_DescriptionsTrimmed ==
    \A k \in 1..Len(tasks) :
        /\ tasks[k].description # <<>>
        /\ HasText(tasks[k].description)
        /\ tasks[k].description[1] # " "
        /\ tasks[k].description[Len(tasks[k].description)] # " "

\* the description typed with inner and trailing blanks is stored
C14_Witness ==
    /\ last.op = "add" /\ msg = "added"
    /\ last.description = <<"b", " ", "c", " ">>
    /\ tasks[Len(tasks)].description = <<"b", " ", "c">>

(* C19: for a valid i, mark_task_done(i) reports "already done" exactly    *)
(* when the task displayed at position i is done, duplicates included: it  *)
(* marks nothing then, and it marks a task when the displayed one is       *)
(* pending.                                                                *)
C19_AlreadyDoneIffShownDone ==
    [][ \A i \in 1..Len(tasks) :
            (last'.op = "mark" /\ last'.index = i)
            => /\ msg' = "already_done" <=> ShownAt(tasks, i).done
               /\ msg' = "marked" <=> ~ShownAt(tasks, i).done
               /\ ShownAt(tasks, i).done => (tasks' = tasks /\ file' = file)
               /\ ~ShownAt(tasks, i).done => tasks' # tasks ]_vars

\* a pending task was marked whose done duplicate is stored before it: the
\* list held the two, display position 2 of them was the pending one
C19_Witness ==
    /\ last.op = "mark" /\ msg = "marked"
    /\ ShownAt(tasks, last.index).done
    /\ \E j \in 1..Len(tasks) :
           /\ j < StorageOf(tasks, last.index)
           /\ tasks[j] = ShownAt(tasks, last.index)

(* C20: storage order is insertion order: add_task puts the new task at    *)
(* the end, delete_task keeps the order of the tasks that stay, and        *)
(* mark_task_done changes neither the length nor the place of a task.      *)
C20_InsertionOrderKept ==
    [][ /\ (last'.op = "add" /\ msg' = "added") =>
               /\ Len(tasks') = Len(tasks) + 1
               /\ SubSeq(tasks', 1, Len(tasks)) = tasks
               /\ tasks'[Len(tasks')].description = Trimmed(last'.description)
        /\ (last'.op = "delete" /\ msg' = "deleted") =>
               \E k \in 1..Len(tasks) :
                   /\ tasks[k] = ShownAt(tasks, last'.index)
                   /\ tasks' = Without(tasks, k)
        /\ last'.op = "mark" =>
               /\ Len(tasks') = Len(tasks)
               /\ \A k \in 1..Len(tasks) :
                      /\ tasks'[k].description = tasks[k].description
                      /\ tasks'[k].priority = tasks[k].priority ]_vars

\* a task was added behind two others that differ from it
C20_Witness ==
    /\ last.op = "add" /\ msg = "added"
    /\ Len(tasks) = 3
    /\ tasks[3] # tasks[1] /\ tasks[3] # tasks[2]

----------------------------------------------------------------------------
Task(description, done, priority) ==
    [description |-> description, done |-> done, priority |-> priority]

Milk     == Task(BuyMilk, FALSE, "LOW")
Rent     == Task(PayRent, FALSE, "HIGH")
RentDone == Task(PayRent, TRUE, "HIGH")

(* C15: from the empty list, add "Buy milk" LOW and "Pay rent" HIGH; the   *)
(* view lists "Pay rent" first and "Buy milk" second; mark_task_done(1)    *)
(* sets done on "Pay rent" only; delete_task(2) then leaves "Pay rent",    *)
(* done, as the only task.  Each step starts where the step before ends.   *)
C15_Scenario ==
    [][ /\ (tasks = <<>> /\ last' = Call("add", 0, BuyMilk, "LOW"))
            => tasks' = <<Milk>>
        /\ (tasks = <<Milk>> /\ last' = Call("add", 0, PayRent, "HIGH"))
            => tasks' = <<Milk, Rent>>
        /\ (tasks = <<Milk, Rent>> /\ last'.op = "view")
            => (view' = <<Rent, Milk>> /\ tasks' = tasks)
        /\ (tasks = <<Milk, Rent>> /\ last' = Call("mark", 1, <<>>, ""))
            => tasks' = <<Milk, RentDone>>
        /\ (tasks = <<Milk, RentDone>> /\ last' = Call("delete", 2, <<>>, ""))
            => tasks' = <<RentDone>> ]_vars

\* the end of the scenario: delete_task(2) has left "Pay rent", done, alone
C15_Witness ==
    /\ last = Call("delete", 2, <<>>, "") /\ msg = "deleted"
    /\ tasks = <<RentDone>>

----------------------------------------------------------------------------
(* C12: in main() every input but choice '5' leads back to the menu (a     *)
(* new task's description leads there through the priority prompt), and    *)
(* the loop ends only when '5' is typed at the menu.                       *)
C12_LoopEndsOnlyOnQuit ==
    [][ /\ pc' = "done" => (pc = "menu" /\ last'.op = "5")
        /\ (pc = "menu" /\ last'.op \notin {"2", "5"}) => pc' = "menu"
        /\ (pc = "menu" /\ last'.op = "2") => pc' = "priority"
        /\ pc = "priority" =>
               /\ pc' \in {"priority", "menu"}
               /\ msg' # "invalid_priority" => pc' = "menu" ]_vars

\* the menu is shown again after a second mark-done of one task
C12_Witness ==
    /\ pc = "menu"
    /\ last.op = "3" /\ msg = "already_done"

----------------------------------------------------------------------------
(* C16: the web add route stores no task for an empty or blank             *)
(* description, so every stored task has a description with text.          *)
C16_WebDescriptionsHaveText ==
    \A i \in DOMAIN docs : HasText(docs[i].description)

\* the user a request is made as
RequestUser(header) ==
    CASE header = "Bearer tokA" -> "A"
      [] header = "Bearer tokB" -> "B"
      [] OTHER                  -> "nobody"

HeaderOf(user) == IF user = "A" THEN "Bearer tokA" ELSE "Bearer tokB"

(* C17: a request made as user A never changes, deletes or creates a task  *)
(* whose user_id is another user B, get_tasks for A lists only tasks whose *)
(* user_id is A, and what get_tasks lists for B is the same before and     *)
(* after A's request.                                                      *)
C17_UsersIsolated ==
    [][ \A a \in Users, b \in Users :
            (a # b /\ RequestUser(last'.header) = a)
            => /\ \A i \in DOMAIN docs :
                      docs[i].user_id = b
                      => (i \in DOMAIN docs' /\ docs'[i] = docs[i])
               /\ \A i \in DOMAIN docs' \ DOMAIN docs : docs'[i].user_id = a
               /\ \A k \in 1..Len(view') : view'[k].user_id = a
               /\ get_tasks(docs', HeaderOf(b)).tasks
                      = get_tasks(docs, HeaderOf(b)).tasks ]_vars

\* user A asked to mark a pending task of user B, and holds a task too
C17_Witness ==
    /\ last.op = "done" /\ last.header = "Bearer tokA"
    /\ last.id \in DOMAIN docs
    /\ docs[last.id].user_id = "B" /\ ~docs[last.id].done
    /\ \E i \in DOMAIN docs : docs[i].user_id = "A"

\* a listed task counts as done
ListedDone(t) == "done" \in DOMAIN t /\ t.done

\* the priority group of a listed task: HIGH, MEDIUM, LOW or no priority,
\* then any other priority (priorities read in upper case)
ListedGroup(t) ==
    IF "priority" \notin DOMAIN t THEN 3
    ELSE CASE t.priority \in {"HIGH", "high"}     -> 1
           [] t.priority \in {"MEDIUM", "medium"} -> 2
           [] t.priority \in {"LOW", "low"}       -> 3
           [] OTHER                               -> 4

(* C18: the web listings show every pending task before every done task,   *)
(* and within the pending and within the done tasks HIGH, then MEDIUM,     *)
(* then LOW (a missing priority counts as LOW), then any other priority.   *)
C18_ListingOrder ==
    msg = "200" /\ last.op \in {"index", "get_tasks"} =>
        \A j, k \in 1..Len(view) :
            j < k =>
                /\ ListedDone(view[j]) => ListedDone(view[k])
                /\ ListedDone(view[j]) = ListedDone(view[k])
                       => ListedGroup(view[j]) <= ListedGroup(view[k])

\* a listing of three tasks: done and pending, with and without priority
C18_Witness ==
    /\ msg = "200" /\ last.op = "get_tasks"
    /\ Len(view) = 3
    /\ \E j, k \in 1..3 : ~ListedDone(view[j]) /\ ListedDone(view[k])
    /\ \E j, k \in 1..3 :
           /\ "priority" \notin DOMAIN view[j]
           /\ ListedGroup(view[k]) = 4
           /\ ListedDone(view[j]) = ListedDone(view[k])

----------------------------------------------------------------------------
(* C21: when save_tasks raises during add_task, mark_task_done or          *)
(* delete_task, the list in memory is as it was before the call and the    *)
(* menu loop goes on.                                                      *)
C21_SaveFailureRollsBack ==
    [][ msg' \in {"traceback", "error_occurred"}
        => (tasks' = tasks /\ pc' = "menu") ]_vars

====
